---- MODULE Spec2Model ----
(***************************************************************************)
(* Model of src/index.js: an express server over an in-memory SQLite       *)
(* database with two tables (users, tasks), bcrypt password hashing and    *)
(* JWT bearer tokens.  Every route handler is split at its asynchronous    *)
(* boundaries (await / database callback): the synchronous prefix of a     *)
(* handler is one action, and each database statement together with the    *)
(* callback that consumes its result is one action.  Requests in flight    *)
(* interleave at those boundaries only (single-threaded event loop).       *)
(***************************************************************************)
EXTENDS Integers, Sequences, FiniteSets, TLC

\* ------------------------------------------------------------------ bounds
MaxTime == 2        \* the clock runs over 0..MaxTime
MaxUsers == 2       \* rows ever inserted into users
MaxTasks == 2       \* rows ever inserted into tasks
MaxTokens == 2      \* distinct tokens ever issued
MaxInFlight == 2    \* requests suspended at an asynchronous boundary

\* ------------------------------------------------------- program constants
JWT_SECRET == "your-secret-key-change-in-production"
\* expiresIn: '24h'; the clock unit of the model is 12 hours
ExpiresIn == 2
\* bcrypt.hash(password, 10)
SaltRounds == 10

\* --------------------------------------------------------------- JS values
Undef == "undefined"
Null == "null"
\* !v of JavaScript for the values a JSON body field takes here
Falsy(v) == v \in {Undef, Null, ""}

\* ------------------------------------------------------------ input domains
Emails == {"a@x.com", "b@x.com"}
Passwords == {"p1", "p2"}
Names == {"A", "B"}
Titles == {"t1", "t2"}
Descriptions == {"d1"}
Statuses == {"done"}
OtherSecret == "not-the-process-secret"

Slots == 1..MaxInFlight

VARIABLES
  now,      \* wall clock (Date.now / CURRENT_TIMESTAMP)
  users,    \* rows of table users
  tasks,    \* rows of table tasks
  seq,      \* sqlite_sequence: last AUTOINCREMENT id handed out per table
  issued,   \* tokens returned to clients by signup and login
  reqs,     \* per slot: the request suspended at an asynchronous boundary
  res       \* the response sent by the step that led to this state, if any

vars == <<now, users, tasks, seq, issued, reqs, res>>

\* ------------------------------------------------------------ Authenticator
\* bcrypt.hash: a salted one-way digest, never the plain text itself
bcryptHash(plain, rounds) == <<"$2b$", rounds, plain>>

\* variant: the stored hash compared with the plain text itself
bcryptComparePlain(plain, hash) == hash = plain

\* bcrypt.compare(plain, hash)
bcryptCompare(plain, hash) == hash = bcryptHash(plain, hash[2])

\* HMAC signature of a payload under a key
HmacSig(payload, key) == <<"HS256", payload, key>>

\* jwt.sign(payload, secret, {expiresIn}) issued at clock value t
jwtSign(claims, secret, t) ==
  LET payload == [id |-> claims.id, email |-> claims.email,
                  iat |-> t, exp |-> t + ExpiresIn]
  IN [payload |-> payload, sig |-> HmacSig(payload, secret)]

\* variant: a token still accepted at its exp
jwtVerifyLate(token, secret, t) ==
  IF token.sig # HmacSig(token.payload, secret) THEN "invalid"
  ELSE IF t > token.payload.exp THEN "expired"
  ELSE "ok"

\* jwt.verify(token, secret) at clock value t: "ok", "invalid" or "expired"
jwtVerify(token, secret, t) ==
  IF token.sig # HmacSig(token.payload, secret) THEN "invalid"
  ELSE IF t >= token.payload.exp THEN "expired"
  ELSE "ok"

\* ------------------------------------------------------------- Session Guard
NoHeader == << >>
NoToken == [absent |-> TRUE]
NoUser == [id |-> 0, email |-> Undef, iat |-> 0, exp |-> 0]

\* authHeader && authHeader.split(' ')[1]
BearerToken(authHeader) ==
  IF authHeader = NoHeader THEN NoToken
  ELSE IF Len(authHeader) < 2 THEN NoToken
  ELSE authHeader[2]

\* variant: the token decoded without verification
authenticateTokenNoVerify(authHeader, t) ==
  LET token == BearerToken(authHeader) IN
  IF token = NoToken
  THEN [status |-> 401, body |-> [error |-> "Access token required"], user |-> NoUser]
  ELSE [status |-> 0, body |-> [error |-> Undef], user |-> token.payload]

\* variant: the identity resolved from the token's email against the users
\* table instead of taken from the signed id
authenticateTokenByEmail(authHeader, t) ==
  LET token == BearerToken(authHeader) IN
  IF token = NoToken
  THEN [status |-> 401, body |-> [error |-> "Access token required"], user |-> NoUser]
  ELSE IF jwtVerify(token, JWT_SECRET, t) # "ok"
  THEN [status |-> 403, body |-> [error |-> "Invalid or expired token"], user |-> NoUser]
  ELSE LET holders == { u \in users : u.email = token.payload.email } IN
       IF holders = {}
       THEN [status |-> 403, body |-> [error |-> "Invalid or expired token"],
             user |-> NoUser]
       ELSE [status |-> 0, body |-> [error |-> Undef],
             user |-> [token.payload EXCEPT !.id = (CHOOSE u \in holders : TRUE).id]]

\* authenticateToken: the status it answers with (0 when it calls next())
\* and the identity it attaches to the request
authenticateToken(authHeader, t) ==
  LET token == BearerToken(authHeader) IN
  IF token = NoToken
  THEN [status |-> 401, body |-> [error |-> "Access token required"], user |-> NoUser]
  ELSE IF jwtVerify(token, JWT_SECRET, t) # "ok"
  THEN [status |-> 403, body |-> [error |-> "Invalid or expired token"], user |-> NoUser]
  ELSE [status |-> 0, body |-> [error |-> Undef], user |-> token.payload]

\* tokens a client can present: the issued ones, an issued one whose payload
\* was altered (other user id, later expiry) under the old signature, and
\* tokens signed with another secret
OtherId(i) == IF i = 1 THEN 2 ELSE 1
Tampered(t) ==
  { [t EXCEPT !.payload.id = OtherId(t.payload.id)],
    [t EXCEPT !.payload.exp = MaxTime + 1] }
ForgedToken(i) ==
  LET payload == [id |-> i, email |-> "a@x.com", iat |-> 0, exp |-> MaxTime + 1]
  IN [payload |-> payload, sig |-> HmacSig(payload, OtherSecret)]
ClientTokens ==
  issued \cup UNION { Tampered(t) : t \in issued } \cup { ForgedToken(1) }
Headers ==
  { NoHeader, <<"Bearer">> } \cup { <<"Bearer", t>> : t \in ClientTokens }

\* ------------------------------------------------------------------ requests
Idle == [pc |-> "idle"]
NoBody == [none |-> TRUE]
NoLoc == [none |-> TRUE]
NoReq ==
  [route |-> "none", hdr |-> NoHeader, user |-> NoUser, id |-> 0, body |-> NoBody]

\* req: the route, req.headers['authorization'], req.user, req.params.id and
\* req.body
Request(route, hdr, user, id, body) ==
  [route |-> route, hdr |-> hdr, user |-> user, id |-> id, body |-> body]

InFlight(routes) ==
  Cardinality({ s \in Slots : reqs[s].pc # "idle" /\ reqs[s].req.route \in routes })

\* what a response is recorded as: the request it answers (route, header,
\* the user id the guard attached, the :id parameter, the body sent), the
\* status code and the JSON body
Answer(req, status, body) ==
  [route |-> req.route, hdr |-> req.hdr, uid |-> req.user.id, id |-> req.id,
   sent |-> req.body, status |-> status, body |-> body]

NoRes == Answer(NoReq, 0, NoBody)

\* res.status(..).json(..) issued from the synchronous prefix of a handler
Reply(req, status, body) ==
  /\ res' = Answer(req, status, body)
  /\ UNCHANGED reqs

\* the handler issues an asynchronous call and suspends at label pc
Suspend(s, req, pc) ==
  /\ reqs' = [reqs EXCEPT ![s] = [pc |-> pc, req |-> req, loc |-> NoLoc]]
  /\ res' = NoRes

\* a callback moves the request of slot s to its next asynchronous boundary
Continue(s, pc, loc) ==
  /\ reqs' = [reqs EXCEPT ![s] = [pc |-> pc, req |-> reqs[s].req, loc |-> loc]]
  /\ res' = NoRes

\* res.status(..).json(..) issued from a callback of the request of slot s
Respond(s, status, body) ==
  /\ reqs' = [reqs EXCEPT ![s] = Idle]
  /\ res' = Answer(reqs[s].req, status, body)

\* slot s is the lowest free one: the next request is received there
Free(s) ==
  /\ reqs[s].pc = "idle"
  /\ \A f \in Slots : f < s => reqs[f].pc # "idle"

At(s, route, pc) ==
  /\ reqs[s].pc = pc
  /\ reqs[s].req.route = route

\* ------------------------------------------------------------ Credential Store
UserByEmail(email) == { u \in users : u.email = email }
UserById(id) == { u \in users : u.id = id }

\* variant: the email column declared without UNIQUE
UniqueViolationOff(rows) == FALSE

\* variant: only the primary key is unique
UniqueViolationOnId(rows) ==
  \E u, v \in rows : u # v /\ u.id = v.id

\* email TEXT UNIQUE: the rows the table would hold break the constraint
UniqueViolation(rows) ==
  \E u, v \in rows : u # v /\ u.email = v.email

\* SELECT id, email, name, created_at FROM users
PublicView(u) ==
  [id |-> u.id, email |-> u.email, name |-> u.name, created_at |-> u.created_at]

\* ------------------------------------------------------------- POST /signup
SignupBodies ==
  [email : Emails \cup {Undef}, password : Passwords \cup {Undef},
   name : Names \cup {Undef}]

\* lines 63-71: validation, then await bcrypt.hash
Signup(s, body) ==
  LET req == Request("signup", NoHeader, NoUser, 0, body) IN
  /\ Free(s)
  /\ IF Falsy(body.email) \/ Falsy(body.password) \/ Falsy(body.name)
     THEN Reply(req, 400, [error |-> "Email, password, and name are required"])
     ELSE /\ Cardinality(users) + InFlight({"signup"}) < MaxUsers
          /\ Cardinality(issued) + InFlight({"signup", "login"}) < MaxTokens
          /\ Suspend(s, req, "insert")
  /\ UNCHANGED <<now, users, tasks, seq, issued>>

\* lines 71-92: the INSERT and its callback
SignupInsert(s) ==
  /\ At(s, "signup", "insert")
  /\ LET body == reqs[s].req.body
         hashedPassword == bcryptHash(body.password, SaltRounds)
         lastID == seq.users + 1
         row == [id |-> lastID, email |-> body.email, password |-> hashedPassword,
                 name |-> body.name, created_at |-> now]
     IN IF UniqueViolation(users \cup {row})
        THEN \* UNIQUE constraint failed: users.email
             /\ Respond(s, 409, [error |-> "Email already exists"])
             /\ UNCHANGED <<users, seq, issued>>
        ELSE LET token == jwtSign([id |-> lastID, email |-> body.email], JWT_SECRET, now)
             IN /\ users' = users \cup {row}
                /\ seq' = [seq EXCEPT !.users = lastID]
                /\ issued' = issued \cup {token}
                /\ Respond(s, 201,
                      [message |-> "User created successfully", token |-> token,
                       user |-> [id |-> lastID, email |-> body.email,
                                 name |-> body.name]])
  /\ UNCHANGED <<now, tasks>>

\* -------------------------------------------------------------- POST /login
LoginBodies == [email : Emails \cup {Undef}, password : Passwords \cup {Undef}]

\* lines 99-106: validation, then db.get
Login(s, body) ==
  LET req == Request("login", NoHeader, NoUser, 0, body) IN
  /\ Free(s)
  /\ IF Falsy(body.email) \/ Falsy(body.password)
     THEN Reply(req, 400, [error |-> "Email and password are required"])
     ELSE /\ Cardinality(issued) + InFlight({"signup", "login"}) < MaxTokens
          /\ Suspend(s, req, "select")
  /\ UNCHANGED <<now, users, tasks, seq, issued>>

\* variant: an unknown email answered 404, apart from a wrong password
LoginSelectAnswerNotFound(found) ==
  IF found = {}
  THEN [status |-> 404, body |-> [error |-> "User not found"]]
  ELSE [status |-> 0, body |-> [error |-> Undef]]

\* line 108: what the callback of the SELECT answers to the rows found
\* (status 0: it goes on to bcrypt.compare)
LoginSelectAnswer(found) ==
  IF found = {}
  THEN [status |-> 401, body |-> [error |-> "Invalid credentials"]]
  ELSE [status |-> 0, body |-> [error |-> Undef]]

\* lines 113-115: what is answered to the result of bcrypt.compare (status
\* 0: it goes on to sign a token)
LoginCompareAnswer(validPassword) ==
  IF ~validPassword
  THEN [status |-> 401, body |-> [error |-> "Invalid credentials"]]
  ELSE [status |-> 0, body |-> [error |-> Undef]]

\* lines 106-111: SELECT * FROM users WHERE email = ?, then await bcrypt.compare
LoginSelect(s) ==
  /\ At(s, "login", "select")
  /\ LET found == UserByEmail(reqs[s].req.body.email)
         a == LoginSelectAnswer(found)
     IN IF a.status # 0
        THEN Respond(s, a.status, a.body)
        ELSE \E user \in found : Continue(s, "compare", user)
  /\ UNCHANGED <<now, users, tasks, seq, issued>>

\* lines 111-123: the password check and the token
LoginCompare(s) ==
  /\ At(s, "login", "compare")
  /\ LET user == reqs[s].loc
         validPassword == bcryptCompare(reqs[s].req.body.password, user.password)
         a == LoginCompareAnswer(validPassword)
     IN IF a.status # 0
        THEN /\ Respond(s, a.status, a.body)
             /\ UNCHANGED issued
        ELSE LET token == jwtSign([id |-> user.id, email |-> user.email], JWT_SECRET, now)
             IN /\ issued' = issued \cup {token}
                /\ Respond(s, 200,
                      [message |-> "Login successful", token |-> token,
                       user |-> [id |-> user.id, email |-> user.email,
                                 name |-> user.name]])
  /\ UNCHANGED <<now, users, tasks, seq>>

\* ------------------------------------------------------------- GET /profile
\* lines 131-134: the guard, then db.get
GetProfile(s, authHeader) ==
  LET auth == authenticateToken(authHeader, now)
      req == Request("getProfile", authHeader, auth.user, 0, NoBody)
  IN /\ Free(s)
     /\ IF auth.status # 0
        THEN Reply(req, auth.status, auth.body)
        ELSE Suspend(s, req, "select")
     /\ UNCHANGED <<now, users, tasks, seq, issued>>

\* lines 132-141
GetProfileSelect(s) ==
  /\ At(s, "getProfile", "select")
  /\ LET found == UserById(reqs[s].req.user.id)
     IN IF found = {}
        THEN Respond(s, 404, [error |-> "User not found"])
        ELSE \E user \in found : Respond(s, 200, [user |-> PublicView(user)])
  /\ UNCHANGED <<now, users, tasks, seq, issued>>

\* ------------------------------------------------------------- PUT /profile
ProfileBodies == [name : Names \cup {Undef}, email : Emails \cup {Undef}]

\* lines 145-166: the guard, validation, then db.run
UpdateProfile(s, authHeader, body) ==
  LET auth == authenticateToken(authHeader, now)
      req == Request("updateProfile", authHeader, auth.user, 0, body)
  IN /\ Free(s)
     /\ IF auth.status # 0
        THEN Reply(req, auth.status, auth.body)
        ELSE IF Falsy(body.name) /\ Falsy(body.email)
        THEN Reply(req, 400,
                   [error |-> "At least one field (name or email) is required"])
        ELSE Suspend(s, req, "update")
     /\ UNCHANGED <<now, users, tasks, seq, issued>>

\* variant: both columns always in the SET list
SetUserFieldsAll(u, body) ==
  [u EXCEPT !.name = body.name, !.email = body.email]

\* UPDATE users SET name = ?, email = ? WHERE id = ? applied to one row
SetUserFields(u, body) ==
  [u EXCEPT !.name = IF Falsy(body.name) THEN @ ELSE body.name,
            !.email = IF Falsy(body.email) THEN @ ELSE body.email]

\* lines 166-176: the UPDATE and its callback
UpdateProfileUpdate(s) ==
  /\ At(s, "updateProfile", "update")
  /\ LET body == reqs[s].req.body
         id == reqs[s].req.user.id
         updated == { IF u.id = id THEN SetUserFields(u, body) ELSE u : u \in users }
     IN IF UniqueViolation(updated)
        THEN /\ Respond(s, 409, [error |-> "Email already exists"])
             /\ UNCHANGED users
        ELSE /\ users' = updated
             /\ Continue(s, "readback", NoLoc)
  /\ UNCHANGED <<now, tasks, seq, issued>>

\* lines 177-184: the read-back
UpdateProfileReadback(s) ==
  /\ At(s, "updateProfile", "readback")
  /\ LET found == UserById(reqs[s].req.user.id)
     IN IF found = {}
        THEN Respond(s, 200, [message |-> "Profile updated successfully"])
        ELSE \E user \in found :
               Respond(s, 200, [message |-> "Profile updated successfully",
                                user |-> PublicView(user)])
  /\ UNCHANGED <<now, users, tasks, seq, issued>>

\* ----------------------------------------------------------------- Task Store
TaskIds == 1..(MaxTasks + 1)

\* variant: the owner filter left out
OwnedTaskAnyOwner(store, id, uid) == { t \in store : t.id = id }

\* the rows WHERE id = ? AND user_id = ? selects
OwnedTask(store, id, uid) == { t \in store : t.id = id /\ t.user_id = uid }

\* the rows WHERE id = ? selects
TaskById(store, id) == { t \in store : t.id = id }

\* the rows WHERE user_id = ? selects
TasksOf(store, uid) == { t \in store : t.user_id = uid }

\* ORDER BY created_at DESC: every ordering of the rows with created_at
\* non-increasing; rows of equal created_at come in an order SQL leaves open
OrderByCreatedDesc(rows) ==
  { f \in [1..Cardinality(rows) -> rows] :
      /\ \A i, j \in 1..Cardinality(rows) : i # j => f[i] # f[j]
      /\ \A i, j \in 1..Cardinality(rows) : i < j => f[i].created_at >= f[j].created_at }

\* -------------------------------------------------------------- POST /tasks
TaskBodies ==
  [title : Titles \cup {Undef}, description : Descriptions \cup {Undef, Null, ""},
   status : Statuses \cup {Undef}]

\* lines 192-201: the guard, validation, then db.run
CreateTask(s, authHeader, body) ==
  LET auth == authenticateToken(authHeader, now)
      req == Request("createTask", authHeader, auth.user, 0, body)
  IN /\ Free(s)
     /\ IF auth.status # 0
        THEN Reply(req, auth.status, auth.body)
        ELSE IF Falsy(body.title)
        THEN Reply(req, 400, [error |-> "Title is required"])
        ELSE /\ seq.tasks + InFlight({"createTask"}) < MaxTasks
             /\ Suspend(s, req, "insert")
     /\ UNCHANGED <<now, users, tasks, seq, issued>>

\* variant: the status bound as sent, without the 'pending' default
NewTaskNoDefault(id, uid, body, t) ==
  [id |-> id, user_id |-> uid, title |-> body.title,
   description |-> IF Falsy(body.description) THEN Null ELSE body.description,
   status |-> body.status,
   created_at |-> t, updated_at |-> t]

\* the row INSERT INTO tasks (user_id, title, description, status) adds
NewTask(id, uid, body, t) ==
  [id |-> id, user_id |-> uid, title |-> body.title,
   description |-> IF Falsy(body.description) THEN Null ELSE body.description,
   status |-> IF Falsy(body.status) THEN "pending" ELSE body.status,
   created_at |-> t, updated_at |-> t]

\* variant: id INTEGER PRIMARY KEY without AUTOINCREMENT, the new id is one
\* more than the largest id stored
CreateTaskInsertReuse(s) ==
  /\ At(s, "createTask", "insert")
  /\ LET ids == { t.id : t \in tasks }
         lastID == IF ids = {} THEN 1
                   ELSE (CHOOSE m \in ids : \A i \in ids : i <= m) + 1
     IN /\ tasks' = tasks \cup
              { NewTask(lastID, reqs[s].req.user.id, reqs[s].req.body, now) }
        /\ seq' = [seq EXCEPT !.tasks = lastID]
        /\ Continue(s, "readback", [lastID |-> lastID])
  /\ UNCHANGED <<now, users, issued>>

\* lines 199-205: the INSERT and its callback
CreateTaskInsert(s) ==
  /\ At(s, "createTask", "insert")
  /\ LET lastID == seq.tasks + 1
     IN /\ tasks' = tasks \cup
              { NewTask(lastID, reqs[s].req.user.id, reqs[s].req.body, now) }
        /\ seq' = [seq EXCEPT !.tasks = lastID]
        /\ Continue(s, "readback", [lastID |-> lastID])
  /\ UNCHANGED <<now, users, issued>>

\* lines 205-208: SELECT * FROM tasks WHERE id = lastID
CreateTaskReadback(s) ==
  /\ At(s, "createTask", "readback")
  /\ LET found == TaskById(tasks, reqs[s].loc.lastID)
     IN IF found = {}
        THEN Respond(s, 201, [message |-> "Task created successfully"])
        ELSE \E task \in found :
               Respond(s, 201, [message |-> "Task created successfully",
                                task |-> task])
  /\ UNCHANGED <<now, users, tasks, seq, issued>>

\* --------------------------------------------------------------- GET /tasks
\* lines 214-217
ListTasks(s, authHeader) ==
  LET auth == authenticateToken(authHeader, now)
      req == Request("listTasks", authHeader, auth.user, 0, NoBody)
  IN /\ Free(s)
     /\ IF auth.status # 0
        THEN Reply(req, auth.status, auth.body)
        ELSE Suspend(s, req, "select")
     /\ UNCHANGED <<now, users, tasks, seq, issued>>

\* lines 215-222
ListTasksSelect(s) ==
  /\ At(s, "listTasks", "select")
  /\ \E rows \in OrderByCreatedDesc(TasksOf(tasks, reqs[s].req.user.id)) :
       Respond(s, 200, [tasks |-> rows])
  /\ UNCHANGED <<now, users, tasks, seq, issued>>

\* ----------------------------------------------------------- GET /tasks/:id
\* lines 226-229
GetTask(s, authHeader, id) ==
  LET auth == authenticateToken(authHeader, now)
      req == Request("getTask", authHeader, auth.user, id, NoBody)
  IN /\ Free(s)
     /\ IF auth.status # 0
        THEN Reply(req, auth.status, auth.body)
        ELSE Suspend(s, req, "select")
     /\ UNCHANGED <<now, users, tasks, seq, issued>>

\* the answer of lines 230-235 to the rows the SELECT found
GetTaskAnswer(found) ==
  IF found = {}
  THEN { [status |-> 404, body |-> [error |-> "Task not found"]] }
  ELSE { [status |-> 200, body |-> [task |-> task]] : task \in found }

\* lines 227-236
GetTaskSelect(s) ==
  /\ At(s, "getTask", "select")
  /\ \E a \in GetTaskAnswer(OwnedTask(tasks, reqs[s].req.id, reqs[s].req.user.id)) :
       Respond(s, a.status, a.body)
  /\ UNCHANGED <<now, users, tasks, seq, issued>>

\* ----------------------------------------------------------- PUT /tasks/:id
\* variant: the check of lines 243-245 left out
UpdateTaskNoValidation(s, authHeader, id, body) ==
  LET auth == authenticateToken(authHeader, now)
      req == Request("updateTask", authHeader, auth.user, id, body)
  IN /\ Free(s)
     /\ IF auth.status # 0
        THEN Reply(req, auth.status, auth.body)
        ELSE Suspend(s, req, "update")
     /\ UNCHANGED <<now, users, tasks, seq, issued>>

\* lines 240-266
UpdateTask(s, authHeader, id, body) ==
  LET auth == authenticateToken(authHeader, now)
      req == Request("updateTask", authHeader, auth.user, id, body)
  IN /\ Free(s)
     /\ IF auth.status # 0
        THEN Reply(req, auth.status, auth.body)
        ELSE IF Falsy(body.title) /\ Falsy(body.description) /\ Falsy(body.status)
        THEN Reply(req, 400, [error |-> "At least one field is required"])
        ELSE Suspend(s, req, "update")
     /\ UNCHANGED <<now, users, tasks, seq, issued>>

\* variant: updated_at = CURRENT_TIMESTAMP left out of the SET list
SetTaskFieldsStale(task, body, t) ==
  [task EXCEPT
     !.title = IF Falsy(body.title) THEN @ ELSE body.title,
     !.description = IF body.description # Undef THEN body.description ELSE @,
     !.status = IF Falsy(body.status) THEN @ ELSE body.status]

\* variant: all three columns always in the SET list
SetTaskFieldsAll(task, body, t) ==
  [task EXCEPT !.title = body.title, !.description = body.description,
               !.status = body.status, !.updated_at = t]

\* lines 247-263: the SET list applied to one row
SetTaskFields(task, body, t) ==
  [task EXCEPT
     !.title = IF Falsy(body.title) THEN @ ELSE body.title,
     !.description = IF body.description # Undef THEN body.description ELSE @,
     !.status = IF Falsy(body.status) THEN @ ELSE body.status,
     !.updated_at = t]

\* variant: UPDATE tasks SET .. WHERE id = ?
UpdateTaskRowsAnyOwner(store, id, uid, body, t) ==
  { IF task.id = id THEN SetTaskFields(task, body, t) ELSE task : task \in store }

\* UPDATE tasks SET .. WHERE id = ? AND user_id = ?: the table afterwards
UpdateTaskRows(store, id, uid, body, t) ==
  { IF task \in OwnedTask(store, id, uid) THEN SetTaskFields(task, body, t) ELSE task :
      task \in store }

\* this.changes of an UPDATE or DELETE .. WHERE id = ? AND user_id = ?
Changes(store, id, uid) == Cardinality(OwnedTask(store, id, uid))

\* variant: this.changes not looked at
UpdateTaskAnswerNoCheck(changes) == [status |-> 0, body |-> NoBody]

\* lines 270-273: what the callback of the UPDATE answers (status 0: it goes
\* on to the read-back)
UpdateTaskAnswer(changes) ==
  IF changes = 0
  THEN [status |-> 404, body |-> [error |-> "Task not found"]]
  ELSE [status |-> 0, body |-> NoBody]

\* lines 266-275: the UPDATE and its callback
UpdateTaskUpdate(s) ==
  /\ At(s, "updateTask", "update")
  /\ LET req == reqs[s].req
         a == UpdateTaskAnswer(Changes(tasks, req.id, req.user.id))
     IN /\ tasks' = UpdateTaskRows(tasks, req.id, req.user.id, req.body, now)
        /\ IF a.status # 0
           THEN Respond(s, a.status, a.body)
           ELSE Continue(s, "readback", NoLoc)
  /\ UNCHANGED <<now, users, seq, issued>>

\* lines 275-282: SELECT * FROM tasks WHERE id = ?
UpdateTaskReadback(s) ==
  /\ At(s, "updateTask", "readback")
  /\ LET found == TaskById(tasks, reqs[s].req.id)
     IN IF found = {}
        THEN Respond(s, 200, [message |-> "Task updated successfully"])
        ELSE \E task \in found :
               Respond(s, 200, [message |-> "Task updated successfully",
                                task |-> task])
  /\ UNCHANGED <<now, users, tasks, seq, issued>>

\* -------------------------------------------------------- DELETE /tasks/:id
\* lines 288-289
DeleteTask(s, authHeader, id) ==
  LET auth == authenticateToken(authHeader, now)
      req == Request("deleteTask", authHeader, auth.user, id, NoBody)
  IN /\ Free(s)
     /\ IF auth.status # 0
        THEN Reply(req, auth.status, auth.body)
        ELSE Suspend(s, req, "delete")
     /\ UNCHANGED <<now, users, tasks, seq, issued>>

\* lines 293-298: what the callback of the DELETE answers
DeleteTaskAnswer(changes) ==
  IF changes = 0
  THEN [status |-> 404, body |-> [error |-> "Task not found"]]
  ELSE [status |-> 200, body |-> [message |-> "Task deleted successfully"]]

\* lines 289-300: the DELETE and its callback
DeleteTaskDelete(s) ==
  /\ At(s, "deleteTask", "delete")
  /\ LET req == reqs[s].req
         a == DeleteTaskAnswer(Changes(tasks, req.id, req.user.id))
     IN /\ tasks' = tasks \ OwnedTask(tasks, req.id, req.user.id)
        /\ Respond(s, a.status, a.body)
  /\ UNCHANGED <<now, users, seq, issued>>

\* ------------------------------------------------------------ failing calls
\* variant: the callback returns on err without answering
DbErrorSilent(s) ==
  /\ reqs[s].pc # "idle"
  /\ ~At(s, "login", "compare")
  /\ reqs' = [reqs EXCEPT ![s] = Idle]
  /\ res' = NoRes
  /\ UNCHANGED <<now, users, tasks, seq, issued>>

\* the statement the request of slot s waits for fails, for another reason
\* than the UNIQUE constraint: its callback gets err and answers 500 (lines
\* 81, 107, 136, 174, 181, 203, 206, 219, 231, 270, 279, 293); a failed
\* statement changes no row
DbError(s) ==
  /\ reqs[s].pc # "idle"
  /\ ~At(s, "login", "compare")
  /\ Respond(s, 500, [error |-> "Database error"])
  /\ UNCHANGED <<now, users, tasks, seq, issued>>

\* bcrypt.hash or bcrypt.compare rejects: the catch of lines 93-95 or
\* 124-126 answers 500
HashError(s) ==
  /\ At(s, "signup", "insert") \/ At(s, "login", "compare")
  /\ Respond(s, 500, [error |-> "Server error"])
  /\ UNCHANGED <<now, users, tasks, seq, issued>>

\* -------------------------------------------------------------------- clock
Tick ==
  /\ now < MaxTime
  /\ now' = now + 1
  /\ res' = NoRes
  /\ UNCHANGED <<users, tasks, seq, issued, reqs>>

Init ==
  /\ now = 0
  /\ users = {}
  /\ tasks = {}
  /\ seq = [users |-> 0, tasks |-> 0]
  /\ issued = {}
  /\ reqs = [s \in Slots |-> Idle]
  /\ res = NoRes

\* the user routes: requests are received in the slots of S, with a header
\* of H, a signup body of SB, a login body of LB and a profile body of PB
UserRoutes(S, H, SB, LB, PB) ==
  \/ \E s \in S, body \in SB : Signup(s, body)
  \/ \E s \in S : SignupInsert(s)
  \/ \E s \in S, body \in LB : Login(s, body)
  \/ \E s \in S : LoginSelect(s)
  \/ \E s \in S : LoginCompare(s)
  \/ \E s \in S, h \in H : GetProfile(s, h)
  \/ \E s \in S : GetProfileSelect(s)
  \/ \E s \in S, h \in H, body \in PB : UpdateProfile(s, h, body)
  \/ \E s \in S : UpdateProfileUpdate(s)
  \/ \E s \in S : UpdateProfileReadback(s)

\* the task routes: requests are received in the slots of S, with a header
\* of H, a createTask body of CB and an updateTask body of UB
TaskRoutes(S, H, CB, UB) ==
  \/ \E s \in S, h \in H, body \in CB : CreateTask(s, h, body)
  \/ \E s \in S : CreateTaskInsert(s)
  \/ \E s \in S : CreateTaskReadback(s)
  \/ \E s \in S, h \in H : ListTasks(s, h)
  \/ \E s \in S : ListTasksSelect(s)
  \/ \E s \in S, h \in H, id \in TaskIds : GetTask(s, h, id)
  \/ \E s \in S : GetTaskSelect(s)
  \/ \E s \in S, h \in H, id \in TaskIds, body \in UB : UpdateTask(s, h, id, body)
  \/ \E s \in S : UpdateTaskUpdate(s)
  \/ \E s \in S : UpdateTaskReadback(s)
  \/ \E s \in S, h \in H, id \in TaskIds : DeleteTask(s, h, id)
  \/ \E s \in S : DeleteTaskDelete(s)

\* headers of a client that sends no header or a token it was issued
OwnHeaders == { NoHeader } \cup { <<"Bearer", t>> : t \in issued }

\* one request at a time on the user routes
Next ==
  \/ Tick
  \/ UserRoutes({1}, OwnHeaders, SignupBodies, LoginBodies, ProfileBodies)

Spec == Init /\ [][Next]_vars

\* signups and profile updates in flight together
RaceHeaders == { <<"Bearer", t>> : t \in issued }
RaceSignups == [email : Emails, password : Passwords, name : {"A"}]
RaceProfiles == { [name |-> Undef, email |-> e] : e \in Emails } \cup
                { [name |-> "B", email |-> "b@x.com"] }

NextRace ==
  \/ Tick
  \/ \E s \in Slots, body \in RaceSignups : Signup(s, body)
  \/ \E s \in Slots : SignupInsert(s)
  \/ \E s \in Slots, h \in RaceHeaders, body \in RaceProfiles : UpdateProfile(s, h, body)
  \/ \E s \in Slots : UpdateProfileUpdate(s)
  \/ \E s \in Slots : UpdateProfileReadback(s)

SpecRace == Init /\ [][NextRace]_vars

\* the task routes, one request at a time, for two users that signed up at
\* time 0 and hold the tokens they got (the task routes never read users)
Registered(id, email, password, name) ==
  [id |-> id, email |-> email, password |-> bcryptHash(password, SaltRounds),
   name |-> name, created_at |-> 0]

InitTasks ==
  /\ now = 0
  /\ users = { Registered(1, "a@x.com", "p1", "A"), Registered(2, "b@x.com", "p2", "B") }
  /\ tasks = {}
  /\ seq = [users |-> 2, tasks |-> 0]
  /\ issued = { jwtSign([id |-> u.id, email |-> u.email], JWT_SECRET, 0) : u \in users }
  /\ reqs = [s \in Slots |-> Idle]
  /\ res = NoRes

CreateBodies == [title : {Undef, "t1"}, description : {Undef}, status : {Undef}]
UpdateBodies == [title : {Undef, "t2"}, description : {Undef}, status : {Undef, "done"}]

NextTasks == Tick \/ TaskRoutes({1}, OwnHeaders, CreateBodies, UpdateBodies)

SpecTasks == InitTasks /\ [][NextTasks]_vars

\* every protected route, one request at a time, every header
GuardSignups == { [email |-> "a@x.com", password |-> "p1", name |-> "A"] }
GuardProfiles == { [name |-> "B", email |-> Undef] }
GuardCreates == { [title |-> "t1", description |-> Undef, status |-> Undef] }
GuardUpdates == { [title |-> "t2", description |-> Undef, status |-> Undef] }

NextGuard ==
  \/ Tick
  \/ \E body \in GuardSignups : Signup(1, body)
  \/ SignupInsert(1)
  \/ \E h \in Headers : GetProfile(1, h)
  \/ GetProfileSelect(1)
  \/ \E h \in Headers, body \in GuardProfiles : UpdateProfile(1, h, body)
  \/ UpdateProfileUpdate(1)
  \/ UpdateProfileReadback(1)
  \/ TaskRoutes({1}, Headers, GuardCreates, GuardUpdates)

SpecGuard == Init /\ [][NextGuard]_vars

\* createTask and deleteTask, one request at a time, with every shape of
\* the optional fields: absent, null, empty and set
FieldCreates ==
  [title : {Undef, "", "t1"}, description : {Undef, "", "d1"},
   status : {Undef, Null, "done"}]

NextCreate ==
  \/ Tick
  \/ \E h \in OwnHeaders, body \in FieldCreates : CreateTask(1, h, body)
  \/ CreateTaskInsert(1)
  \/ CreateTaskReadback(1)
  \/ \E h \in OwnHeaders, id \in TaskIds : DeleteTask(1, h, id)
  \/ DeleteTaskDelete(1)

SpecCreate == InitTasks /\ [][NextCreate]_vars

\* the profile routes for the two registered users, requests in flight
\* together, with every shape of the two fields: absent, empty, set to a
\* free value, set to the other user's email
FieldProfiles ==
  [name : {Undef, "", "C"}, email : {Undef, "", "b@x.com", "c@x.com"}]

NextProfile ==
  \/ \E s \in Slots, h \in RaceHeaders, body \in FieldProfiles :
       UpdateProfile(s, h, body)
  \/ \E s \in Slots : UpdateProfileUpdate(s)
  \/ \E s \in Slots : UpdateProfileReadback(s)
  \/ \E s \in Slots, h \in RaceHeaders : GetProfile(s, h)
  \/ \E s \in Slots : GetProfileSelect(s)

SpecProfile == InitTasks /\ [][NextProfile]_vars

\* createTask, updateTask and deleteTask requests of one owner in flight
\* together
OwnerHeaders == { <<"Bearer", t>> : t \in { i \in issued : i.payload.id = 1 } }
OwnerUpdates ==
  { [title |-> "t2", description |-> Undef, status |-> Undef],
    [title |-> "t3", description |-> Undef, status |-> "done"] }

NextOwner ==
  \/ \E s \in Slots, h \in OwnerHeaders, body \in GuardCreates : CreateTask(s, h, body)
  \/ \E s \in Slots : CreateTaskInsert(s)
  \/ \E s \in Slots : CreateTaskReadback(s)
  \/ \E s \in Slots, h \in OwnerHeaders, id \in TaskIds, body \in OwnerUpdates :
       UpdateTask(s, h, id, body)
  \/ \E s \in Slots : UpdateTaskUpdate(s)
  \/ \E s \in Slots : UpdateTaskReadback(s)
  \/ \E s \in Slots, h \in OwnerHeaders, id \in TaskIds : DeleteTask(s, h, id)
  \/ \E s \in Slots : DeleteTaskDelete(s)

SpecOwner == InitTasks /\ [][NextOwner]_vars

\* the task routes with requests of both registered users in flight together
NextConc == TaskRoutes(Slots, RaceHeaders, GuardCreates, GuardUpdates)

SpecConc == InitTasks /\ [][NextConc]_vars

\* createTask by user 1 and updateTask by both users, one request at a time,
\* with the shapes of the fields of an update: absent, null, empty and set
UpdateBody(title, description, status) ==
  [title |-> title, description |-> description, status |-> status]
FieldUpdates ==
  { UpdateBody(Undef, Undef, Undef), UpdateBody("", Undef, Undef),
    UpdateBody(Undef, Null, Undef), UpdateBody(Undef, "", Undef),
    UpdateBody("t2", Undef, Undef), UpdateBody(Undef, Undef, "done"),
    UpdateBody("", Undef, "done"), UpdateBody("t2", "", "") }

NextUpdate ==
  \/ Tick
  \/ \E h \in OwnerHeaders, body \in GuardCreates : CreateTask(1, h, body)
  \/ CreateTaskInsert(1)
  \/ CreateTaskReadback(1)
  \/ \E h \in RaceHeaders, id \in TaskIds, body \in FieldUpdates :
       UpdateTask(1, h, id, body)
  \/ UpdateTaskUpdate(1)
  \/ UpdateTaskReadback(1)

SpecUpdate == InitTasks /\ [][NextUpdate]_vars

\* every route with requests in flight together and calls that may fail.
\* Receive: a request arrives; Callback(s): a call the request of slot s
\* waits for calls back, with a result or with an error
LiveLogins == { [email |-> "a@x.com", password |-> p] : p \in Passwords }

Receive ==
  \/ \E s \in Slots, body \in GuardSignups : Signup(s, body)
  \/ \E s \in Slots, body \in LiveLogins : Login(s, body)
  \/ \E s \in Slots, h \in OwnHeaders : GetProfile(s, h)
  \/ \E s \in Slots, h \in OwnHeaders, body \in GuardProfiles : UpdateProfile(s, h, body)
  \/ \E s \in Slots, h \in OwnHeaders, body \in GuardCreates : CreateTask(s, h, body)
  \/ \E s \in Slots, h \in OwnHeaders : ListTasks(s, h)
  \/ \E s \in Slots, h \in OwnHeaders : GetTask(s, h, 1)
  \/ \E s \in Slots, h \in OwnHeaders, body \in GuardUpdates : UpdateTask(s, h, 1, body)
  \/ \E s \in Slots, h \in OwnHeaders : DeleteTask(s, h, 1)

Callback(s) ==
  \/ SignupInsert(s)
  \/ LoginSelect(s)
  \/ LoginCompare(s)
  \/ GetProfileSelect(s)
  \/ UpdateProfileUpdate(s)
  \/ UpdateProfileReadback(s)
  \/ CreateTaskInsert(s)
  \/ CreateTaskReadback(s)
  \/ ListTasksSelect(s)
  \/ GetTaskSelect(s)
  \/ UpdateTaskUpdate(s)
  \/ UpdateTaskReadback(s)
  \/ DeleteTaskDelete(s)
  \/ DbError(s)
  \/ HashError(s)

NextLive == Receive \/ \E s \in Slots : Callback(s)

\* every call issued calls back in the end
SpecLive ==
  Init /\ [][NextLive]_vars /\ \A s \in Slots : WF_vars(Callback(s))

\* signup, a profile update that changes the email, and the task routes, one
\* request at a time: a user can give up a@x.com and another one sign up
\* with it
IdentityProfiles == { [name |-> Undef, email |-> "b@x.com"] }

NextIdentity ==
  \/ Tick
  \/ \E body \in GuardSignups : Signup(1, body)
  \/ SignupInsert(1)
  \/ \E h \in OwnHeaders, body \in IdentityProfiles : UpdateProfile(1, h, body)
  \/ UpdateProfileUpdate(1)
  \/ UpdateProfileReadback(1)
  \/ TaskRoutes({1}, OwnHeaders, GuardCreates, GuardUpdates)

SpecIdentity == Init /\ [][NextIdentity]_vars

\* ============================================================== properties

\* slot s made a step: its request moved on or was answered
Stepped(s) == reqs'[s] # reqs[s]

\* the request of slot s is about to run its statement against a task that
\* exists and is owned by another user than the one its token names
OnForeignTask(s) ==
  /\ reqs[s].pc \in {"select", "update", "delete"}
  /\ reqs[s].req.route \in {"getTask", "updateTask", "deleteTask"}
  /\ \E t \in tasks : t.id = reqs[s].req.id /\ t.user_id # reqs[s].req.user.id

ValidSignup(body) ==
  body.email \in Emails /\ body.password \in Passwords /\ body.name \in Names

\* the guard accepts token at the current time and attaches the user id uid
GuardAccepts(token, uid) ==
  LET auth == authenticateToken(<<"Bearer", token>>, now)
  IN auth.status = 0 /\ auth.user.id = uid

\* C2: with one request at a time, a signup with a valid body is answered
\* 201 or (email taken) 409; after a 201 the user row holds the email sent
\* and a hash that the password sent compares equal to; and a login whose
\* email and password match a stored row is answered 200 with a token that
\* the guard accepts and that identifies that row's id.
C2_SignupThenLogin ==
  /\ (res.route = "signup" /\ ValidSignup(res.sent)) =>
       /\ res.status \in {201, 409}
       /\ \E u \in users : u.email = res.sent.email
       /\ res.status = 201 =>
            \E u \in users :
              /\ u.id = res.body.user.id
              /\ u.email = res.sent.email
              /\ bcryptCompare(res.sent.password, u.password)
              /\ GuardAccepts(res.body.token, u.id)
  /\ res.route = "login" =>
       \A u \in users :
         (u.email = res.sent.email /\ bcryptCompare(res.sent.password, u.password)) =>
           /\ res.status = 200
           /\ res.body.user.id = u.id
           /\ GuardAccepts(res.body.token, u.id)

\* a login answered 200 for a user that signed up within the same clock value
C2_Witness ==
  /\ res.route = "login"
  /\ res.status = 200
  /\ \E u \in users : u.id = res.body.user.id /\ u.created_at = now
  /\ GuardAccepts(res.body.token, res.body.user.id)

\* the signup of slot s is about to run its INSERT with an email that a user
\* row already has
OnTakenEmail(s) ==
  /\ At(s, "signup", "insert")
  /\ \E u \in users : u.email = reqs[s].req.body.email

UniqueEmails ==
  \A u, v \in users : (u.email = v.email \/ u.id = v.id) => u = v

\* the profile update of slot s is about to run its UPDATE with an email that
\* another user's row has
OnOthersEmail(s) ==
  /\ At(s, "updateProfile", "update")
  /\ \E u \in users :
       u.email = reqs[s].req.body.email /\ u.id # reqs[s].req.user.id

\* C4: with signups and profile updates in flight together, no two users
\* ever share an email; a write that meets its email on another row is
\* answered 409 and changes no user row; every other write takes effect
\* (signup: one new row with the email; profile update: the caller's row gets
\* the fields sent, every other row stays).
C4_EmailUniqueUnderRaces ==
  /\ []UniqueEmails
  /\ [][\A s \in Slots :
          /\ (OnTakenEmail(s) /\ Stepped(s)) =>
               (res'.status = 409 /\ users' = users)
          /\ (At(s, "signup", "insert") /\ ~OnTakenEmail(s) /\ Stepped(s)) =>
               /\ res'.status = 201
               /\ \E u \in users' :
                    /\ u \notin users
                    /\ u.email = reqs[s].req.body.email
                    /\ users' = users \cup {u}
          /\ (OnOthersEmail(s) /\ Stepped(s)) =>
               (res'.status = 409 /\ users' = users)
          /\ (At(s, "updateProfile", "update") /\ ~OnOthersEmail(s) /\ Stepped(s)) =>
               /\ reqs'[s].pc = "readback"
               /\ \A u \in users :
                    IF u.id = reqs[s].req.user.id
                    THEN SetUserFields(u, reqs[s].req.body) \in users'
                    ELSE u \in users'
               /\ Cardinality(users') = Cardinality(users)]_vars

\* a signup answered 409 while the profile update that took its email is
\* still in flight
C4_Witness ==
  /\ res.route = "signup"
  /\ res.status = 409
  /\ \E s \in Slots :
       /\ At(s, "updateProfile", "readback")
       /\ reqs[s].req.body.email = res.sent.email
       /\ \E u \in users : u.id = reqs[s].req.user.id /\ u.email = res.sent.email

ProtectedRoutes ==
  {"getProfile", "updateProfile", "createTask", "listTasks", "getTask",
   "updateTask", "deleteTask"}

\* the token's signature is the process secret's over its payload, and the
\* token is not expired at clock value t
Verifies(token, t) ==
  token.sig = HmacSig(token.payload, JWT_SECRET) /\ t < token.payload.exp

\* C5: on every protected route a request without header or without token
\* segment is answered 401 and one whose token fails verification 403, both
\* from the guard: nothing is suspended and users, tasks, the id sequences
\* and the issued tokens stay as they were.  A request whose token verifies
\* is not answered 401 or 403, and the identity it carries on is the id and
\* email of a token that signup or login issued.
C5_GuardOnProtectedRoutes ==
  [][/\ (res'.route \in ProtectedRoutes /\ reqs' = reqs) =>
          LET token == BearerToken(res'.hdr) IN
          /\ token = NoToken => res'.status = 401
          /\ (token # NoToken /\ ~Verifies(token, now)) => res'.status = 403
          /\ (token # NoToken /\ Verifies(token, now)) =>
               /\ res'.status \notin {401, 403}
               /\ token \in issued
               /\ res'.uid = token.payload.id
          /\ res'.status \in {401, 403} =>
               /\ res'.uid = 0
               /\ UNCHANGED <<users, tasks, seq, issued>>
     /\ \A s \in Slots :
          (reqs[s].pc = "idle" /\ reqs'[s].pc # "idle"
             /\ reqs'[s].req.route \in ProtectedRoutes) =>
            LET token == BearerToken(reqs'[s].req.hdr) IN
            /\ token # NoToken
            /\ Verifies(token, now)
            /\ token \in issued
            /\ reqs'[s].req.user.id = token.payload.id
            /\ reqs'[s].req.user.email = token.payload.email]_vars

\* an issued token whose payload was altered is answered 403 on a task route
C5_Witness ==
  /\ res.route = "deleteTask"
  /\ res.status = 403
  /\ BearerToken(res.hdr) # NoToken
  /\ BearerToken(res.hdr) \notin issued
  /\ BearerToken(res.hdr).sig \in { t.sig : t \in issued }

\* C6: a token issued at clock value t carries iat = t and exp = t + 24 h;
\* the guard accepts an issued token at every time before its exp and
\* rejects it at every time from its exp on, and a token once rejected is
\* rejected after every later step; a token whose signature is not the
\* process secret's over its payload is rejected at every time.
C6_TokenLifetime ==
  /\ [](\A t \in issued :
          LET status == authenticateToken(<<"Bearer", t>>, now).status IN
          /\ t.payload.iat <= now
          /\ t.payload.exp = t.payload.iat + ExpiresIn
          /\ now < t.payload.iat + ExpiresIn => status = 0
          /\ now >= t.payload.iat + ExpiresIn => status = 403)
  /\ []((res.route \in {"signup", "login"} /\ res.status \in {200, 201}) =>
          (res.body.token \in issued /\ res.body.token.payload.iat = now))
  /\ [](\A t \in ClientTokens :
          t.sig # HmacSig(t.payload, JWT_SECRET) =>
            authenticateToken(<<"Bearer", t>>, now).status = 403)
  /\ [][\A t \in ClientTokens :
          authenticateToken(<<"Bearer", t>>, now).status = 403 =>
            authenticateToken(<<"Bearer", t>>, now').status = 403]_vars

\* a request with an issued token is answered 403 at the token's exp
C6_Witness ==
  /\ res.status = 403
  /\ BearerToken(res.hdr) \in issued
  /\ now = BearerToken(res.hdr).payload.exp

\* C7: for a task k owned by B and any other user A, what A's getTask,
\* updateTask and deleteTask on k are answered is the same on the task table
\* as it is and on the task table without k: ownership mismatch and
\* non-existence get the same status and body.
C7_MismatchLikeAbsence ==
  \A t \in tasks : \A tok \in issued :
    LET A == tok.payload.id
        without == tasks \ {t}
    IN A # t.user_id =>
         /\ GetTaskAnswer(OwnedTask(tasks, t.id, A))
              = GetTaskAnswer(OwnedTask(without, t.id, A))
         /\ UpdateTaskAnswer(Changes(tasks, t.id, A))
              = UpdateTaskAnswer(Changes(without, t.id, A))
         /\ DeleteTaskAnswer(Changes(tasks, t.id, A))
              = DeleteTaskAnswer(Changes(without, t.id, A))
         /\ UpdateTaskAnswer(Changes(tasks, t.id, A)).status = 404
         /\ DeleteTaskAnswer(Changes(tasks, t.id, A)).status = 404

C7_Witness ==
  /\ res.route = "getTask"
  /\ res.status = 404
  /\ \E t \in tasks : t.id = res.id /\ t.user_id # res.uid /\ res.uid # 0

\* C8: listTasks answers with exactly the caller's stored tasks, and of any
\* two of them the one created later (the larger AUTOINCREMENT id) comes
\* first, also when both were created within the same clock value.
C8_ListNewestFirst ==
  (res.route = "listTasks" /\ res.status = 200) =>
    LET rows == res.body.tasks IN
    /\ { rows[i] : i \in 1..Len(rows) } = TasksOf(tasks, res.uid)
    /\ Len(rows) = Cardinality(TasksOf(tasks, res.uid))
    /\ \A i, j \in 1..Len(rows) : i < j => rows[i].id > rows[j].id

\* the part of C8 the code keeps: the rows are the caller's tasks, each once,
\* with created_at non-increasing
C8_ListByCreatedAt ==
  (res.route = "listTasks" /\ res.status = 200) =>
    LET rows == res.body.tasks IN
    /\ { rows[i] : i \in 1..Len(rows) } = TasksOf(tasks, res.uid)
    /\ Len(rows) = Cardinality(TasksOf(tasks, res.uid))
    /\ \A i, j \in 1..Len(rows) : i < j => rows[i].created_at >= rows[j].created_at

\* no field of the body is set
NoFieldSet(body) ==
  body.title = Undef /\ body.description = Undef /\ body.status = Undef

\* C9: an updateTask that passed the guard and sets none of title,
\* description and status is answered 400 from the handler's synchronous
\* prefix: it never suspends on a statement, and the step that answers it
\* leaves the task table, updated_at included, as it was.
C9_EmptyUpdateRejected ==
  /\ [](\A s \in Slots :
          reqs[s].pc # "idle" /\ reqs[s].req.route = "updateTask" =>
            ~NoFieldSet(reqs[s].req.body))
  /\ [](res.route = "updateTask" /\ res.uid # 0 /\ NoFieldSet(res.sent) =>
          res.status = 400)
  /\ [][res'.route = "updateTask" /\ res'.status = 400 =>
          tasks' = tasks /\ reqs' = reqs]_vars

C9_Witness ==
  /\ res.route = "updateTask"
  /\ res.status = 400
  /\ NoFieldSet(res.sent)
  /\ \E t \in tasks : t.id = res.id /\ t.user_id = res.uid

\* the request of slot s is about to run its UPDATE or DELETE on an id that
\* no row of the task table has
OnMissingTask(s) ==
  /\ reqs[s].pc \in {"update", "delete"}
  /\ reqs[s].req.route \in {"updateTask", "deleteTask"}
  /\ TaskById(tasks, reqs[s].req.id) = {}

\* C10: an updateTask (with a field set) or deleteTask on an id that is not
\* in the task table, never assigned or deleted earlier, is answered 404 and
\* changes no row.
C10_MissingTaskNotFound ==
  [][\A s \in Slots :
       OnMissingTask(s) /\ Stepped(s) =>
         /\ res'.status = 404
         /\ res'.route = reqs[s].req.route
         /\ tasks' = tasks]_vars

\* a 404 for an id that was assigned once and deleted since
C10_Witness ==
  /\ res.route = "updateTask"
  /\ res.status = 404
  /\ res.id <= seq.tasks
  /\ TaskById(tasks, res.id) = {}
  /\ tasks # {}

\* the createTask of slot s is about to run its INSERT
OnInsert(s) == At(s, "createTask", "insert")

\* the row a createTask step added: the one row of tasks' that tasks lacks,
\* while every row of tasks stays
Inserted(t) ==
  /\ t \in tasks'
  /\ t \notin tasks
  /\ tasks' = tasks \cup {t}
  /\ \A old \in tasks : old.id # t.id

\* C11 as stated: a createTask without title is answered 400 and inserts
\* nothing; one with a title inserts exactly one new row owned by the token's
\* user, with the title sent, the description sent (null when the field is
\* absent) and the status sent ("pending" when the field is absent), and
\* changes no other row.
C11_CreateAsSupplied ==
  [][/\ (res'.route = "createTask" /\ res'.uid # 0 /\ Falsy(res'.sent.title)) =>
          (res'.status = 400 /\ tasks' = tasks /\ reqs' = reqs)
     /\ \A s \in Slots :
          OnInsert(s) /\ Stepped(s) =>
            LET body == reqs[s].req.body IN
            \E t \in tasks' :
              /\ Inserted(t)
              /\ t.user_id = BearerToken(reqs[s].req.hdr).payload.id
              /\ t.title = body.title
              /\ t.description =
                   (IF body.description = Undef THEN Null ELSE body.description)
              /\ t.status =
                   (IF body.status = Undef THEN "pending" ELSE body.status)]_vars

\* C11 amended: as above, but an empty (null or "") description counts as
\* absent and is stored as null, and an empty (null or "") status counts as
\* absent and is stored as "pending"; a createTask is answered 400 from the
\* guarded prefix exactly when its title is absent or empty.
C11_CreateTaskFields ==
  [][/\ (res'.route = "createTask" /\ res'.uid # 0 /\ reqs' = reqs) =>
          (Falsy(res'.sent.title) /\ res'.status = 400 /\ tasks' = tasks)
     /\ \A s \in Slots :
          /\ (reqs[s].pc = "idle" /\ reqs'[s].pc # "idle"
                /\ reqs'[s].req.route = "createTask") =>
               (~Falsy(reqs'[s].req.body.title) /\ tasks' = tasks)
          /\ (OnInsert(s) /\ Stepped(s)) =>
               LET body == reqs[s].req.body IN
               \E t \in tasks' :
                 /\ Inserted(t)
                 /\ t.user_id = BearerToken(reqs[s].req.hdr).payload.id
                 /\ t.title = body.title
                 /\ t.description =
                      (IF Falsy(body.description) THEN Null ELSE body.description)
                 /\ t.status =
                      (IF Falsy(body.status) THEN "pending" ELSE body.status)]_vars

\* a 201 for a second task, sent with an empty description and a null
\* status, stored with null and "pending" next to the first task
C11_Witness ==
  /\ res.route = "createTask"
  /\ res.status = 201
  /\ res.sent.description = ""
  /\ res.sent.status = Null
  /\ res.body.task.description = Null
  /\ res.body.task.status = "pending"
  /\ res.body.task.user_id = res.uid
  /\ Cardinality(tasks) = 2

\* C12: an updateProfile with neither name nor email is answered 400 from
\* the handler's prefix and changes nothing; the UPDATE of one whose email
\* is on another user's row is answered 409 and leaves every user row, the
\* caller's name included, as it was; every other UPDATE leaves all other
\* rows as they were and changes of the caller's row only name and email,
\* each to the value sent when one was sent (and left alone when absent or
\* empty), keeping id, password hash and created_at; the read-back changes
\* nothing and answers 200 with the public view of the caller's row.
C12_UpdateProfileFrame ==
  [][/\ (res'.route = "updateProfile" /\ res'.uid # 0 /\ reqs' = reqs) =>
          /\ Falsy(res'.sent.name) /\ Falsy(res'.sent.email)
          /\ res'.status = 400
          /\ users' = users
     /\ \A s \in Slots :
          /\ (reqs[s].pc = "idle" /\ reqs'[s].pc # "idle"
                /\ reqs'[s].req.route = "updateProfile") =>
               /\ ~(Falsy(reqs'[s].req.body.name) /\ Falsy(reqs'[s].req.body.email))
               /\ users' = users
          /\ (OnOthersEmail(s) /\ Stepped(s)) =>
               (res'.status = 409 /\ users' = users)
          /\ (At(s, "updateProfile", "update") /\ ~OnOthersEmail(s) /\ Stepped(s)) =>
               LET body == reqs[s].req.body
                   me == reqs[s].req.user.id
               IN /\ reqs'[s].pc = "readback"
                  /\ Cardinality(users') = Cardinality(users)
                  /\ \A u \in users :
                       IF u.id # me THEN u \in users'
                       ELSE \E v \in users' :
                              /\ v.id = u.id
                              /\ v.password = u.password
                              /\ v.created_at = u.created_at
                              /\ v.name = (IF body.name \in {Undef, ""}
                                           THEN u.name ELSE body.name)
                              /\ v.email = (IF body.email \in {Undef, ""}
                                            THEN u.email ELSE body.email)
          /\ (At(s, "updateProfile", "readback") /\ Stepped(s)) =>
               /\ users' = users
               /\ res'.status = 200
               /\ \E u \in users :
                    /\ u.id = reqs[s].req.user.id
                    /\ res'.body.user = [id |-> u.id, email |-> u.email,
                                          name |-> u.name,
                                          created_at |-> u.created_at]]_vars

\* a 409 for an update that sent a new name together with the other user's
\* email: the caller's row still has its old name
C12_Witness ==
  /\ res.route = "updateProfile"
  /\ res.status = 409
  /\ res.sent.name = "C"
  /\ \E u \in users : u.id = res.uid /\ u.name # "C" /\ u.email # res.sent.email
  /\ \E u \in users : u.id # res.uid /\ u.email = res.sent.email

\* a name-only update took effect: the caller has the new name, the old email
C12_WitnessNameOnly ==
  /\ res.route = "updateProfile"
  /\ res.status = 200
  /\ res.sent = [name |-> "C", email |-> Undef]
  /\ res.body.user.name = "C"

\* res answers a login whose email no user row has
OnUnknownEmail ==
  /\ res.route = "login"
  /\ res.sent.email \in Emails
  /\ res.sent.password \in Passwords
  /\ \A u \in users : u.email # res.sent.email

\* res answers a login whose email a user row has, with another password
\* than that row's
OnWrongPassword ==
  /\ res.route = "login"
  /\ res.sent.password \in Passwords
  /\ \E u \in users :
       u.email = res.sent.email /\ ~bcryptCompare(res.sent.password, u.password)

\* status and body of res
Seen == [status |-> res.status, body |-> res.body]

\* C13 as stated: the answer to a login with a registered email and a wrong
\* password differs, in status or body, from the answer a login with an
\* email that no user has gets, and the other way round.
C13_LoginErrorsDistinct ==
  /\ OnWrongPassword => Seen # LoginSelectAnswer({})
  /\ OnUnknownEmail => Seen # LoginCompareAnswer(FALSE)

\* C13 amended: a login with an email that no user has and a login with a
\* registered email and a wrong password get the same answer, 401 with the
\* body {error: 'Invalid credentials'}.
C13_LoginErrorsAlike ==
  /\ OnWrongPassword =>
       /\ Seen = [status |-> 401, body |-> [error |-> "Invalid credentials"]]
       /\ Seen = LoginSelectAnswer({})
  /\ OnUnknownEmail =>
       /\ Seen = [status |-> 401, body |-> [error |-> "Invalid credentials"]]
       /\ Seen = LoginCompareAnswer(FALSE)

\* a 401 for a registered email with a wrong password while another email
\* is still free
C13_Witness ==
  /\ OnWrongPassword
  /\ res.status = 401
  /\ \E e \in Emails : \A u \in users : u.email # e

\* C14: under every interleaving of one owner's requests, a 200 of
\* updateTask carries the addressed task with each field sent equal to the
\* value sent, and a 201 of createTask carries the row that request
\* inserted: the caller's, with the title sent and the defaults.
C14_ReadbackOwnWrite ==
  /\ (res.route = "updateTask" /\ res.status = 200) =>
       /\ "task" \in DOMAIN res.body
       /\ res.body.task.id = res.id
       /\ res.sent.title # Undef => res.body.task.title = res.sent.title
       /\ res.sent.status # Undef => res.body.task.status = res.sent.status
  /\ (res.route = "createTask" /\ res.status = 201) =>
       /\ "task" \in DOMAIN res.body
       /\ res.body.task =
            NewTask(res.body.task.id, res.uid, res.sent, res.body.task.created_at)

\* the updateTask of slot s is about to run its UPDATE on a task of its caller
OnOwnTask(s) ==
  /\ At(s, "updateTask", "update")
  /\ \E t \in tasks : t.id = reqs[s].req.id /\ t.user_id = reqs[s].req.user.id

\* C15: with updateTask requests of one owner on the same task in flight
\* together, the UPDATE of each can always run (it waits for nothing), and
\* when it runs on the existing task it is not rejected: it goes on to its
\* read-back, which answers 200; it sets each column it supplies to its
\* value and keeps every other column as the statements before left it, so
\* a column ends with the value of the last UPDATE that supplied it.  No
\* other step changes a column of a stored task.
C15_LastWriteWins ==
  /\ [](\A s \in Slots :
          /\ At(s, "updateTask", "update") => ENABLED UpdateTaskUpdate(s)
          /\ At(s, "updateTask", "readback") => ENABLED UpdateTaskReadback(s))
  /\ [][\A s \in Slots :
          /\ (OnOwnTask(s) /\ Stepped(s)) =>
               LET body == reqs[s].req.body IN
               /\ reqs'[s].pc = "readback"
               /\ \A t \in tasks : t.id = reqs[s].req.id =>
                    \E v \in tasks' :
                      /\ v.id = t.id
                      /\ v.title = (IF body.title = Undef THEN t.title ELSE body.title)
                      /\ v.status = (IF body.status = Undef THEN t.status ELSE body.status)
                      /\ v.description = (IF body.description = Undef
                                          THEN t.description ELSE body.description)
          /\ (At(s, "updateTask", "readback") /\ Stepped(s)) =>
               (res'.status = 200 /\ tasks' = tasks)
          /\ (Stepped(s) /\ ~At(s, "updateTask", "update")) =>
               \A t \in tasks : t \in tasks' \/ (\A v \in tasks' : v.id # t.id)]_vars

\* both updates of a race got through: one was just answered 200 while the
\* other is at its read-back, and the task has the title of the one that
\* ran last and the status only the other one supplied
C15_Witness ==
  /\ res.route = "updateTask"
  /\ res.status = 200
  /\ res.sent.status = "done"
  /\ \E s \in Slots :
       /\ At(s, "updateTask", "readback")
       /\ reqs[s].req.id = res.id
       /\ reqs[s].req.body.title = "t2"
       /\ reqs[s].req.body.status = Undef
  /\ \E t \in tasks : t.id = res.id /\ t.title = "t2" /\ t.status = "done"

\* updated_at of every stored task is its created_at or later, and no step
\* moves the updated_at of a task back
UpdatedAtMonotonic ==
  /\ [](\A t \in tasks : t.created_at <= t.updated_at /\ t.updated_at <= now)
  /\ [][\A t \in tasks : \A v \in tasks' :
          v.id = t.id => v.updated_at >= t.updated_at]_vars

\* the step of slot s is an UPDATE that turns the caller's task into a row
\* with the owner, id and created_at it had and updated_at the current time,
\* and leaves every other task as it was; Set(old, new) tells, per column,
\* which value the row gets
UpdatesOwnTask(s, Set(_, _, _)) ==
  \A t \in tasks :
    IF t.id = reqs[s].req.id
    THEN LET body == reqs[s].req.body IN
         \E v \in tasks' :
           /\ v.id = t.id
           /\ v.user_id = t.user_id
           /\ v.created_at = t.created_at
           /\ v.updated_at = now
           /\ v.title = Set("title", t.title, body.title)
           /\ v.description = Set("description", t.description, body.description)
           /\ v.status = Set("status", t.status, body.status)
           /\ Cardinality(tasks') = Cardinality(tasks)
    ELSE t \in tasks'

\* a column is written whenever the body has the field
SetIfPresent(col, old, sent) == IF sent = Undef THEN old ELSE sent

\* title and status are written when the field is non-empty, description
\* whenever the body has the field (null and "" included)
SetAsCoded(col, old, sent) ==
  IF col = "description"
  THEN (IF sent = Undef THEN old ELSE sent)
  ELSE (IF sent \in {Undef, Null, ""} THEN old ELSE sent)

\* C16 as stated: a successful updateTask sets exactly the columns of title,
\* description and status that the request supplied, each to the value
\* supplied, keeps the others and id, owner and created_at, leaves every
\* other task alone and sets updated_at to the current time; updated_at is
\* never earlier than created_at nor than its previous value.
C16_SetsSuppliedColumns ==
  /\ UpdatedAtMonotonic
  /\ [][\A s \in Slots :
          OnOwnTask(s) /\ Stepped(s) => UpdatesOwnTask(s, SetIfPresent)]_vars

\* C16 amended: as stated, except that a title or status supplied as null
\* or as the empty string is not written (the column keeps its value),
\* while a description is written whenever the field is present.
C16_UpdateTaskFrame ==
  /\ UpdatedAtMonotonic
  /\ [][\A s \in Slots :
          OnOwnTask(s) /\ Stepped(s) => UpdatesOwnTask(s, SetAsCoded)]_vars

\* a 200 for an update sent with an empty title and a status, at a later
\* time than the task's creation: the task kept its title, got the status
\* and the new updated_at, and the caller's other task is as it was created
C16_Witness ==
  /\ res.route = "updateTask"
  /\ res.status = 200
  /\ res.sent.title = ""
  /\ res.sent.status = "done"
  /\ res.body.task.title = "t1"
  /\ res.body.task.status = "done"
  /\ res.body.task.updated_at > res.body.task.created_at
  /\ \E o \in tasks : o.id # res.id /\ o.status = "pending" /\ o.updated_at = o.created_at

\* C17: an updateTask by the owner of an existing task is answered 400 only
\* when none of title, description and status is supplied; one that
\* supplies a description, the empty string and null included, is not
\* answered 400, and its UPDATE writes that description.
C17_DescriptionAloneAccepted ==
  /\ []((/\ res.route = "updateTask"
          /\ res.status = 400
          /\ \E t \in tasks : t.id = res.id /\ t.user_id = res.uid) =>
          (res.sent.description = Undef /\ Falsy(res.sent.title)
             /\ Falsy(res.sent.status)))
  /\ [][\A s \in Slots :
          (OnOwnTask(s) /\ Stepped(s) /\ reqs[s].req.body.description # Undef) =>
            \E v \in tasks' :
              v.id = reqs[s].req.id /\ v.description = reqs[s].req.body.description]_vars

\* the step ends the request of slot s
Ends(s) == reqs[s].pc # "idle" /\ reqs'[s].pc = "idle"

\* res' is a response to req
Answers(req) ==
  /\ res'.status # 0
  /\ res'.route = req.route
  /\ res'.hdr = req.hdr
  /\ res'.id = req.id
  /\ res'.sent = req.body

\* C18: provided every call a request waits for calls back, every request
\* that was suspended at a call is ended in the end; the step that ends a
\* request is the one step that sends its response, a request not yet ended
\* has got none, and a response is sent only by the step that ends its
\* request or by the synchronous prefix that received it (never two); a 500
\* ends the request at the step of the failed call, whose statement is not
\* issued again and leaves the data as it was.
C18_OneResponse ==
  /\ \A s \in Slots : (reqs[s].pc # "idle") ~> (reqs[s].pc = "idle")
  /\ [][/\ \A s \in Slots :
             /\ Ends(s) => Answers(reqs[s].req)
             /\ (reqs[s].pc # "idle" /\ ~Ends(s)) =>
                  (reqs'[s].req = reqs[s].req /\ (Stepped(s) => res'.status = 0))
             /\ (reqs[s].pc = "idle" /\ reqs'[s].pc # "idle") => res'.status = 0
        /\ Cardinality({ s \in Slots : Stepped(s) }) <= 1
        /\ res'.status # 0 => (reqs' = reqs \/ \E s \in Slots : Ends(s))
        /\ res'.status = 500 =>
             /\ \E s \in Slots : Ends(s)
             /\ res'.body \in {[error |-> "Database error"], [error |-> "Server error"]}
             /\ UNCHANGED <<users, tasks, seq, issued>>]_vars

\* a 500 from the read-back of a createTask whose INSERT had taken effect
\* (every createTask ever received has run its INSERT, this one included),
\* with another request still in flight
C18_Witness ==
  /\ res.route = "createTask"
  /\ res.status = 500
  /\ seq.tasks = MaxTasks
  /\ Cardinality(tasks) = MaxTasks
  /\ \E s \in Slots : reqs[s].pc # "idle"

\* the task records res carries
Carried ==
  IF res.route = "listTasks" /\ res.status = 200
  THEN { res.body.tasks[i] : i \in 1..Len(res.body.tasks) }
  ELSE IF /\ res.route \in {"createTask", "getTask", "updateTask"}
          /\ res.status \in {200, 201}
          /\ "task" \in DOMAIN res.body
  THEN { res.body.task }
  ELSE {}

\* C19: with requests of both users in flight together on all task routes,
\* every task record in a response of createTask, listTasks, getTask or
\* updateTask is owned by the user the request was authenticated as; no
\* step changes the owner of a stored task, and a row that appears has an
\* id larger than every id assigned before.
C19_ResponsesCarryOwnTasks ==
  /\ [](\A t \in Carried : t.user_id = res.uid /\ res.uid # 0)
  /\ [](\A t \in tasks : t.id <= seq.tasks)
  /\ [][/\ \A t \in tasks : \A v \in tasks' : v.id = t.id => v.user_id = t.user_id
        /\ \A v \in tasks' : (\A t \in tasks : t.id # v.id) => v.id > seq.tasks
        /\ seq'.tasks >= seq.tasks]_vars

\* an updateTask of one user is answered 200 with its task after the other
\* user created one and deleted one of their own
C19_Witness ==
  /\ res.route = "updateTask"
  /\ res.status = 200
  /\ Carried # {}
  /\ seq.tasks = 2
  /\ Cardinality(tasks) = 1
  /\ res.id = 2

\* the user id signed into the token the request of slot s came with
TokenId(s) == BearerToken(reqs[s].req.hdr).payload.id

\* C20: what a request on a task route reads, changes or deletes is fixed
\* by the user id signed into its token, whatever the users table says:
\* its INSERT adds a task of that id; its list is exactly the tasks of that
\* id; its get, update or delete on :id is answered 404 and changes nothing
\* when no task has that :id and that owner, and otherwise is not answered
\* 404 and leaves every other task alone.  A profile update keeps the id of
\* every user, and a signup gets an id that no user had before.
C20_TokenReachesOwnTasks ==
  /\ [](\A u, v \in users : u.id = v.id => u = v)
  /\ [][/\ \A u \in users : \E v \in users' : v.id = u.id
        /\ \A v \in users' : (\A u \in users : u.id # v.id) => v.id > seq.users
        /\ seq'.users >= seq.users
        /\ \A s \in Slots :
             /\ (OnInsert(s) /\ Stepped(s)) =>
                  \E t \in tasks' :
                    t \notin tasks /\ t.user_id = TokenId(s) /\ tasks' = tasks \cup {t}
             /\ (At(s, "listTasks", "select") /\ Stepped(s)) =>
                  { res'.body.tasks[i] : i \in 1..Len(res'.body.tasks) }
                     = { t \in tasks : t.user_id = TokenId(s) }
             /\ (/\ reqs[s].pc \in {"select", "update", "delete"}
                 /\ reqs[s].req.route \in {"getTask", "updateTask", "deleteTask"}
                 /\ Stepped(s)) =>
                  LET mine == { t \in tasks :
                                  t.id = reqs[s].req.id /\ t.user_id = TokenId(s) }
                  IN /\ mine = {} => (res'.status = 404 /\ tasks' = tasks)
                     /\ mine # {} =>
                          /\ res'.status # 404
                          /\ \A t \in tasks \ mine : t \in tasks'
                          /\ reqs[s].req.route = "getTask" =>
                               (res'.body.task \in mine /\ tasks' = tasks)]_vars

\* user 1 moved from a@x.com to b@x.com and user 2 signed up with a@x.com;
\* the token of user 1, which still names a@x.com, is answered 404 on a
\* task of user 2
C20_Witness ==
  /\ res.route = "getTask"
  /\ res.status = 404
  /\ BearerToken(res.hdr).payload = [id |-> 1, email |-> "a@x.com", iat |-> 0, exp |-> 2]
  /\ \E u \in users : u.id = 1 /\ u.email = "b@x.com"
  /\ \E u \in users : u.id = 2 /\ u.email = "a@x.com"
  /\ \E t \in tasks : t.id = res.id /\ t.user_id = 2

\* the token of user 1 still reads user 1's task after the email moved on
C20_WitnessOwn ==
  /\ res.route = "getTask"
  /\ res.status = 200
  /\ BearerToken(res.hdr).payload.email = "a@x.com"
  /\ res.body.task.user_id = 1
  /\ \E u \in users : u.id = 2 /\ u.email = "a@x.com"

====
